---- MODULE Spec2Model ----
(***************************************************************************)
(* A model of the cloudbbq library (src/src/lib.rs): the temperature       *)
(* codec, the two notification parsers and the BBQDevice session with its  *)
(* notification streams; and of the UUID conversions (src/src/uuid.rs).    *)
(*                                                                         *)
(* f32 values are modelled exactly: a finite value is s * m * 2^e with     *)
(* s in {1,-1} and 2^23 <= m < 2^24 (or m = 0), and every arithmetic       *)
(* operation rounds to nearest, ties to even, as IEEE-754 binary32 does.   *)
(* All magnitudes the library handles are far from the subnormal and the   *)
(* overflow range, so the exponent is left unbounded.                      *)
(***************************************************************************)
EXTENDS Integers, Sequences, FiniteSets, TLC

VARIABLES
    tenths,        \* codec: n when the temperature is the literal n/10
    temperature,   \* codec: the f32 handed to encode_temperature
    encoded,       \* codec: the Result of encode_temperature
    decoded,       \* codec: decode_temperature of the encoded bytes
    value,         \* parsers: the notification payload, a sequence of bytes
    realTime,      \* parsers: the outcome of RealTimeData::try_parse(value)
    settingResult, \* parsers: the outcome of SettingResult::try_parse(value)
    device,        \* session: the BBQDevice, its five characteristic handles
    authenticated, \* session: authenticate() has returned Ok (the spec's
                   \*          Authenticated state; the code keeps no such field)
    notifying,     \* transport: the characteristics with notifications started
    streams,       \* session: the characteristic of every stream handed out
                   \*          and not yet dropped
    call,          \* session: the most recent call and what it returned
    ops,           \* transport: the operations that call issued, in order
    streamKind,    \* stream: "real_time" or "setting_results"
    filterId,      \* stream: the characteristic the stream's closure captured
    pending,       \* stream: the events delivered and not yet polled
    delivered,     \* stream: every event delivered, in arrival order
    output,        \* stream: the items the stream has yielded
    decodes,       \* stream: the number of try_parse calls the closure made
    streamState,   \* stream: "open", or "panicked" once a poll has panicked
    uuid128,       \* uuid: the Uuid128 handed to uuid128_to_string
    uuidString,    \* uuid: the String handed to string_to_uuid128
    uuidParsed,    \* uuid: the Result of string_to_uuid128(uuidString)
    uuidPhase      \* uuid: "uuid" before uuid128_to_string has run, "string"
                   \*       once uuidString is set, "parsed" after the parse

codecVars == <<tenths, temperature, encoded, decoded>>
parseVars == <<value, realTime, settingResult>>
sessionVars == <<device, authenticated, notifying, streams, call, ops>>
streamVars ==
    <<streamKind, filterId, pending, delivered, output, decodes, streamState>>
uuidVars == <<uuid128, uuidString, uuidParsed, uuidPhase>>
notSessionVars == <<codecVars, parseVars, streamVars, uuidVars>>
vars == <<codecVars, parseVars, sessionVars, streamVars, uuidVars>>

(***************************************************************************)
(* Bounds of the model.                                                    *)
(***************************************************************************)
\* Temperatures handed to the encoder are the f32 literals n/10 for
\* |n| <= MaxTenths (and NaN and the infinities).
MaxTenths == 32800
\* Payloads handed to the parsers: every payload of at most one chunk,
\* every payload of up to MaxRealTimeLen bytes over RealTimeBytes and every
\* payload of up to MaxSettingLen bytes over SettingBytes.
MaxRealTimeLen == 5
MaxSettingLen == 7
\* At most MaxStreams streams are open at a time.
MaxStreams == 2
\* At most MaxEvents events are delivered to a stream.
MaxEvents == 3
\* The texts handed to string_to_uuid128 have up to MaxUuidParts parts.
MaxUuidParts == 6

(***************************************************************************)
(* Program constants.                                                      *)
(***************************************************************************)
I16_MAX == 32767
I16_MIN == -32768
\* f32 has 24 significant bits.
F32_MANTISSA_BITS == 24
\* The bytes of one temperature on the wire: chunks_exact(2).
CHUNK_SIZE == 2

(***************************************************************************)
(* IEEE-754 binary32 arithmetic.                                           *)
(***************************************************************************)
Pow2(k) == 2 ^ k
MantHi == Pow2(F32_MANTISSA_BITS)
MantLo == Pow2(F32_MANTISSA_BITS - 1)

Fin(s, m, e) == [k |-> "fin", s |-> s, m |-> m, e |-> e]
F32Zero == Fin(1, 0, 0)
F32NaN == [k |-> "nan", s |-> 1, m |-> 0, e |-> 0]
F32Inf(s) == [k |-> "inf", s |-> s, m |-> 0, e |-> 0]

\* num/den rounded to an integer, to nearest, ties to even (num >= 0, den > 0).
RoundHalfEven(num, den) ==
    LET q == num \div den
        r == num % den
    IN  IF 2 * r < den THEN q
        ELSE IF 2 * r > den THEN q + 1
        ELSE IF q % 2 = 0 THEN q ELSE q + 1

\* The f32 nearest to s * (num/den) * 2^e, for num > 0 and den > 0.
RECURSIVE RoundToF32(_, _, _, _)
RoundToF32(s, num, den, e) ==
    IF num >= den * MantHi THEN RoundToF32(s, num, den * 2, e + 1)
    ELSE IF num < den * MantLo THEN RoundToF32(s, num * 2, den, e - 1)
    ELSE LET m == RoundHalfEven(num, den)
         IN  IF m = MantHi THEN Fin(s, MantLo, e + 1) ELSE Fin(s, m, e)

Sign(n) == IF n < 0 THEN -1 ELSE 1
Abs(n) == IF n < 0 THEN -n ELSE n

\* `n as f32` for an integer n.
F32FromInt(n) == IF n = 0 THEN F32Zero ELSE RoundToF32(Sign(n), Abs(n), 1, 0)

\* The f32 a decimal literal with one fractional digit denotes: n/10.
F32Tenths(n) == IF n = 0 THEN F32Zero ELSE RoundToF32(Sign(n), Abs(n), 10, 0)

\* m * 2^e with the trailing zero bits of m moved into the exponent.
RECURSIVE OddPart(_, _)
OddPart(m, e) == IF m # 0 /\ m % 2 = 0 THEN OddPart(m \div 2, e + 1) ELSE <<m, e>>

\* x * y in f32.
F32Mul(x, y) ==
    IF x.k = "nan" \/ y.k = "nan" THEN F32NaN
    ELSE IF x.k = "inf" \/ y.k = "inf"
         THEN IF (x.k = "fin" /\ x.m = 0) \/ (y.k = "fin" /\ y.m = 0)
              THEN F32NaN ELSE F32Inf(x.s * y.s)
    ELSE IF x.m = 0 \/ y.m = 0 THEN F32Zero
    ELSE LET o == OddPart(y.m, y.e)
         IN  RoundToF32(x.s * y.s, x.m * o[1], 1, x.e + o[2])

\* x / y in f32.
F32Div(x, y) ==
    IF x.k = "nan" \/ y.k = "nan" THEN F32NaN
    ELSE IF x.k = "inf" THEN (IF y.k = "inf" THEN F32NaN ELSE F32Inf(x.s * y.s))
    ELSE IF y.k = "inf" THEN F32Zero
    ELSE IF y.m = 0 THEN (IF x.m = 0 THEN F32NaN ELSE F32Inf(x.s * y.s))
    ELSE IF x.m = 0 THEN F32Zero
    ELSE LET o == OddPart(y.m, y.e)
         IN  RoundToF32(x.s * y.s, x.m, o[1], x.e - o[2])

\* x < y on f32: false whenever an operand is NaN.
F32Lt(x, y) ==
    IF x.k = "nan" \/ y.k = "nan" THEN FALSE
    ELSE IF x.k = "inf" THEN x.s = -1 /\ ~(y.k = "inf" /\ y.s = -1)
    ELSE IF y.k = "inf" THEN y.s = 1
    ELSE IF x.m = 0 THEN y.m # 0 /\ y.s = 1
    ELSE IF y.m = 0 THEN x.s = -1
    ELSE IF x.s # y.s THEN x.s = -1
    ELSE IF x.s = 1 THEN x.e < y.e \/ (x.e = y.e /\ x.m < y.m)
    ELSE y.e < x.e \/ (x.e = y.e /\ y.m < x.m)

F32Gt(x, y) == F32Lt(y, x)

\* `x as i16`: truncation toward zero, saturating, NaN to 0.
F32ToI16(x) ==
    IF x.k = "nan" THEN 0
    ELSE IF x.k = "inf" THEN (IF x.s = 1 THEN I16_MAX ELSE I16_MIN)
    ELSE IF x.m = 0 \/ x.e <= -F32_MANTISSA_BITS THEN 0
    ELSE IF x.e > 16 - F32_MANTISSA_BITS THEN (IF x.s = 1 THEN I16_MAX ELSE I16_MIN)
    ELSE LET t == x.s * (IF x.e >= 0 THEN x.m * Pow2(x.e) ELSE x.m \div Pow2(-x.e))
         IN  IF t > I16_MAX THEN I16_MAX ELSE IF t < I16_MIN THEN I16_MIN ELSE t

\* i16::to_le_bytes and i16::from_le_bytes.
I16ToLeBytes(n) == LET u == n % 65536 IN <<u % 256, u \div 256>>
I16FromLeBytes(bytes) ==
    LET u == bytes[1] + 256 * bytes[2] IN IF u >= 32768 THEN u - 65536 ELSE u

(***************************************************************************)
(* The temperature codec.                                                  *)
(***************************************************************************)
F32Ten == F32FromInt(10)
ABSENT_PROBE_VALUE == F32FromInt(-1)
TARGET_TEMP_NONE == F32FromInt(-300)
TEMPERATURE_MAX == F32Div(F32FromInt(I16_MAX), F32Ten)
TEMPERATURE_MIN == F32Div(F32FromInt(I16_MIN), F32Ten)

\* Result<[u8; 2], Error>
EncOk(bytes) == [ok |-> TRUE, bytes |-> bytes]
EncErr == [ok |-> FALSE, bytes |-> <<>>]

\* encode_temperature with the bytes in big-endian order (to_be_bytes).
encode_temperature_be(t) ==
    IF F32Lt(t, TEMPERATURE_MIN) \/ F32Gt(t, TEMPERATURE_MAX) THEN EncErr
    ELSE LET le == I16ToLeBytes(F32ToI16(F32Mul(t, F32Ten)))
         IN  EncOk(<<le[2], le[1]>>)

encode_temperature(t) ==
    IF F32Lt(t, TEMPERATURE_MIN) \/ F32Gt(t, TEMPERATURE_MAX) THEN EncErr
    ELSE EncOk(I16ToLeBytes(F32ToI16(F32Mul(t, F32Ten))))

decode_temperature(bytes) == F32Div(F32FromInt(I16FromLeBytes(bytes)), F32Ten)

(***************************************************************************)
(* The notification parsers.                                               *)
(***************************************************************************)
\* Option<f32>
NoFloat == [some |-> FALSE, v |-> F32Zero]
SomeFloat(x) == [some |-> TRUE, v |-> x]

\* Option<RealTimeData>
RtNone == [some |-> FALSE, probe_temperatures |-> <<>>]
RtSome(temps) == [some |-> TRUE, probe_temperatures |-> temps]

\* RealTimeData::try_parse without its length check: chunks_exact drops the
\* odd byte.
RealTimeData_try_parse_unchecked(bytes) ==
    RtSome([i \in 1 .. (Len(bytes) \div 2) |->
        LET t == decode_temperature(<<bytes[2 * i - 1], bytes[2 * i]>>)
        IN  IF t = ABSENT_PROBE_VALUE THEN NoFloat ELSE SomeFloat(t)])

RealTimeData_try_parse(bytes) ==
    IF Len(bytes) % 2 # 0 THEN RtNone
    ELSE RtSome([i \in 1 .. (Len(bytes) \div 2) |->
            LET t == decode_temperature(<<bytes[2 * i - 1], bytes[2 * i]>>)
            IN  IF t = ABSENT_PROBE_VALUE THEN NoFloat ELSE SomeFloat(t)])

\* Possible values for the first byte of the 'setting result'.
SILENCE_PRESSED == 4
BATTERY_LEVEL_PROPERTY_ID == 36
ACKNOWLEDGE_COMMAND == 255

\* The outcome of SettingResult::try_parse: None, Some(SettingResult) or a
\* panic (a failed assert!).
SrOutcome(o, tag, c, cv, mv) ==
    [outcome |-> o, tag |-> tag, command_id |-> c,
     current_voltage |-> cv, max_voltage |-> mv]
SrNone == SrOutcome("none", "-", 0, 0, 0)
SrPanic == SrOutcome("panic", "-", 0, 0, 0)
AcknowledgeCommand(c) == SrOutcome("some", "AcknowledgeCommand", c, 0, 0)
BatteryLevel(cv, mv) == SrOutcome("some", "BatteryLevel", 0, cv, mv)
SilencePressed == SrOutcome("some", "SilencePressed", 0, 0, 0)

\* u16::from_be_bytes in place of u16::from_le_bytes.
U16FromBeBytes(lo, hi) == 256 * lo + hi

U16FromLeBytes(lo, hi) == lo + 256 * hi

SettingResult_try_parse(bytes) ==
    IF Len(bytes) # 6 THEN SrNone
    ELSE IF bytes[1] = ACKNOWLEDGE_COMMAND
         THEN IF SubSeq(bytes, 3, 6) = <<0, 0, 0, 0>>
              THEN AcknowledgeCommand(bytes[2]) ELSE SrPanic
    ELSE IF bytes[1] = BATTERY_LEVEL_PROPERTY_ID
         THEN BatteryLevel(U16FromLeBytes(bytes[2], bytes[3]),
                           U16FromLeBytes(bytes[4], bytes[5]))
    ELSE IF bytes[1] = SILENCE_PRESSED
         THEN IF SubSeq(bytes, 2, 6) = <<255, 0, 0, 0, 0>>
              THEN SilencePressed ELSE SrPanic
    ELSE SrNone

(***************************************************************************)
(* The device session: BBQDevice.                                          *)
(***************************************************************************)
\* The 16-bit UUIDs of the characteristics; a characteristic's handle is
\* modelled by the UUID it was resolved from.
SETTING_RESULT_UUID == 65521
ACCOUNT_AND_VERIFY_UUID == 65522
HISTORY_DATA_UUID == 65523
REAL_TIME_DATA_UUID == 65524
SETTING_DATA_UUID == 65525

CREDENTIAL_MSG == <<33, 7, 6, 5, 4, 3, 2, 1, 184, 34, 0, 0, 0, 0, 0>>

\* Possible values for the first byte of 'setting data'.
SET_TARGET_TEMP_COMMAND == 1
SET_UNIT_COMMAND == 2
REAL_TIME_DATA_COMMAND == 11
REQUEST_PROPERTY_COMMAND == 8

UNITS_CELCIUS_ARGUMENT == 0
UNITS_FAHRENHEIT_ARGUMENT == 1

TemperatureUnit == {"Celcius", "Fahrenheit"}

\* What BBQDevice::new returns once every characteristic is resolved.
BBQDevice_new ==
    [setting_result_characteristic |-> SETTING_RESULT_UUID,
     account_and_verify_characteristic |-> ACCOUNT_AND_VERIFY_UUID,
     history_data_characteristic |-> HISTORY_DATA_UUID,
     real_time_data_characteristic |-> REAL_TIME_DATA_UUID,
     setting_data_characteristic |-> SETTING_DATA_UUID]

\* The operations of the Bluetooth session, each with the transport's answer.
WriteOp(ch, bytes, ok) == [op |-> "write", ch |-> ch, value |-> bytes, ok |-> ok]
StartNotifyOp(ch, ok) == [op |-> "start_notify", ch |-> ch, value |-> <<>>, ok |-> ok]
EventStreamOp(ch, ok) == [op |-> "event_stream", ch |-> ch, value |-> <<>>, ok |-> ok]

\* Result<(), BluetoothError> of a transport operation.
BtResult(ok) == IF ok THEN "Ok" ELSE "Bluetooth"

\* A call of the session: its name, its arguments (arg: the unit, the flag
\* or the probe; target: the f32 target, lit: n when target is the literal
\* n/10) and what it returned.
Call(name, arg, lit, target, result) ==
    [name |-> name, arg |-> arg, lit |-> lit, target |-> target, result |-> result]
NoCall == Call("-", 0, 0, F32Zero, "-")

\* write_characteristic_value(ch, bytes).await as the whole body of a call.
WriteCall(name, arg, ch, bytes, ok) ==
    /\ ops' = <<WriteOp(ch, bytes, ok)>>
    /\ call' = Call(name, arg, 0, F32Zero, BtResult(ok))

authenticate(ok) ==
    /\ WriteCall("authenticate", 0, device.account_and_verify_characteristic,
                 CREDENTIAL_MSG, ok)
    /\ authenticated' = (authenticated \/ ok)
    /\ UNCHANGED <<device, notifying, streams, notSessionVars>>

set_temperature_unit(unit, ok) ==
    LET argument == IF unit = "Celcius" THEN UNITS_CELCIUS_ARGUMENT
                    ELSE UNITS_FAHRENHEIT_ARGUMENT
    IN  /\ WriteCall("set_temperature_unit", argument,
                     device.setting_data_characteristic,
                     <<SET_UNIT_COMMAND, argument, 0, 0, 0, 0>>, ok)
        /\ UNCHANGED <<device, authenticated, notifying, streams, notSessionVars>>

\* set_target_range(probe, start..end): the transport operations and the
\* Result it returns.
set_target_range(probe, start, end, ok) ==
    LET bottom_bytes == encode_temperature(start)
        top_bytes == encode_temperature(end)
    IN  IF ~bottom_bytes.ok \/ ~top_bytes.ok
        THEN [ops |-> <<>>, result |-> "TemperatureEncodingError"]
        ELSE [ops |-> <<WriteOp(device.setting_data_characteristic,
                                <<SET_TARGET_TEMP_COMMAND, probe,
                                  bottom_bytes.bytes[1], bottom_bytes.bytes[2],
                                  top_bytes.bytes[1], top_bytes.bytes[2]>>, ok)>>,
              result |-> BtResult(ok)]

set_target_temp(probe, lit, target, ok) ==
    LET r == set_target_range(probe, TARGET_TEMP_NONE, target, ok)
    IN  /\ ops' = r.ops
        /\ call' = Call("set_target_temp", probe, lit, target, r.result)
        /\ UNCHANGED <<device, authenticated, notifying, streams, notSessionVars>>

\* enable_real_time_data refusing to write before authenticate() succeeded.
enable_real_time_data_guarded(enable, ok) ==
    LET argument == IF enable THEN 1 ELSE 0
    IN  /\ IF authenticated
           THEN WriteCall("enable_real_time_data", argument,
                          device.setting_data_characteristic,
                          <<REAL_TIME_DATA_COMMAND, argument, 0, 0, 0, 0>>, ok)
           ELSE /\ ops' = <<>>
                /\ call' = Call("enable_real_time_data", argument, 0, F32Zero,
                                "Bluetooth")
        /\ UNCHANGED <<device, authenticated, notifying, streams, notSessionVars>>

enable_real_time_data(enable, ok) ==
    LET argument == IF enable THEN 1 ELSE 0
    IN  /\ WriteCall("enable_real_time_data", argument,
                     device.setting_data_characteristic,
                     <<REAL_TIME_DATA_COMMAND, argument, 0, 0, 0, 0>>, ok)
        /\ UNCHANGED <<device, authenticated, notifying, streams, notSessionVars>>

\* request_battery_level writing to the setting-result characteristic.
request_battery_level_to_result(ok) ==
    /\ WriteCall("request_battery_level", 0, device.setting_result_characteristic,
                 <<REQUEST_PROPERTY_COMMAND, BATTERY_LEVEL_PROPERTY_ID, 0, 0, 0, 0>>,
                 ok)
    /\ UNCHANGED <<device, authenticated, notifying, streams, notSessionVars>>

request_battery_level(ok) ==
    /\ WriteCall("request_battery_level", 0, device.setting_data_characteristic,
                 <<REQUEST_PROPERTY_COMMAND, BATTERY_LEVEL_PROPERTY_ID, 0, 0, 0, 0>>,
                 ok)
    /\ UNCHANGED <<device, authenticated, notifying, streams, notSessionVars>>

\* start_notify(ch).await?, characteristic_event_stream(ch).await?, then the
\* filtering stream is handed to the caller.
Subscribe(name, ch, notifyOk, streamOk) ==
    /\ Len(streams) < MaxStreams
    /\ ops' = IF notifyOk THEN <<StartNotifyOp(ch, TRUE), EventStreamOp(ch, streamOk)>>
              ELSE <<StartNotifyOp(ch, FALSE)>>
    /\ notifying' = IF notifyOk THEN notifying \cup {ch} ELSE notifying
    /\ streams' = IF notifyOk /\ streamOk THEN Append(streams, ch) ELSE streams
    /\ call' = Call(name, 0, 0, F32Zero, BtResult(notifyOk /\ streamOk))
    /\ UNCHANGED <<device, authenticated, notSessionVars>>

\* real_time() that also switches the device's real-time data on.
real_time_enabling(notifyOk, streamOk) ==
    LET ch == device.real_time_data_characteristic
    IN  /\ Len(streams) < MaxStreams
        /\ ops' = <<WriteOp(device.setting_data_characteristic,
                            <<REAL_TIME_DATA_COMMAND, 1, 0, 0, 0, 0>>, TRUE)>>
                     \o (IF notifyOk
                         THEN <<StartNotifyOp(ch, TRUE), EventStreamOp(ch, streamOk)>>
                         ELSE <<StartNotifyOp(ch, FALSE)>>)
        /\ notifying' = IF notifyOk THEN notifying \cup {ch} ELSE notifying
        /\ streams' = IF notifyOk /\ streamOk THEN Append(streams, ch) ELSE streams
        /\ call' = Call("real_time", 0, 0, F32Zero, BtResult(notifyOk /\ streamOk))
        /\ UNCHANGED <<device, authenticated, notSessionVars>>

real_time(notifyOk, streamOk) ==
    Subscribe("real_time", device.real_time_data_characteristic, notifyOk, streamOk)

setting_results(notifyOk, streamOk) ==
    Subscribe("setting_results", device.setting_result_characteristic,
              notifyOk, streamOk)

\* The caller drops stream i: nothing in the library runs, no stop_notify
\* is issued.
DropStream(i) ==
    /\ i \in DOMAIN streams
    /\ streams' = SubSeq(streams, 1, i - 1) \o SubSeq(streams, i + 1, Len(streams))
    /\ ops' = <<>>
    /\ call' = Call("drop", streams[i], 0, F32Zero, "-")
    /\ UNCHANGED <<device, authenticated, notifying, notSessionVars>>

(***************************************************************************)
(* The streams real_time() and setting_results() return: the transport's   *)
(* event stream under a filter_map closure.                                *)
(***************************************************************************)
\* BluetoothEvent: a value change of a characteristic, or an event of
\* another kind.
ValueEvent(id, bytes) ==
    [variant |-> "Characteristic", id |-> id, event |-> "Value", value |-> bytes]
DeviceEvent == [variant |-> "Device", id |-> 0, event |-> "-", value |-> <<>>]

\* An item of either stream.
RtItem(r) == [rt |-> r, sr |-> SrNone]
SrItem(r) == [rt |-> RtNone, sr |-> r]

\* What a closure does with one event: whether it called try_parse, whether
\* that panicked, and the item it yields, if any.
Filtered(dec, panic, items) == [decoded |-> dec, panic |-> panic, items |-> items]

\* The closure of real_time().
real_time_filter(id, event) ==
    IF event.variant = "Characteristic" /\ event.event = "Value" /\ event.id = id
    THEN LET r == RealTimeData_try_parse(event.value)
         IN  Filtered(TRUE, FALSE, IF r.some THEN <<RtItem(r)>> ELSE <<>>)
    ELSE Filtered(FALSE, FALSE, <<>>)

\* The closure of setting_results().
setting_results_filter(id, event) ==
    IF event.variant = "Characteristic" /\ event.event = "Value" /\ event.id = id
    THEN LET r == SettingResult_try_parse(event.value)
         IN  Filtered(TRUE, r.outcome = "panic",
                      IF r.outcome = "some" THEN <<SrItem(r)>> ELSE <<>>)
    ELSE Filtered(FALSE, FALSE, <<>>)

\* The transport delivers an event to the stream's channel.
Deliver(event) ==
    /\ streamState = "open"
    /\ Len(delivered) < MaxEvents
    /\ pending' = Append(pending, event)
    /\ delivered' = Append(delivered, event)
    /\ UNCHANGED <<streamKind, filterId, output, decodes, streamState>>
    /\ UNCHANGED <<codecVars, parseVars, sessionVars, uuidVars>>

\* The consumer polls the stream: the closure runs on the oldest event.
Poll ==
    /\ streamState = "open"
    /\ pending # <<>>
    /\ LET f == IF streamKind = "real_time"
                 THEN real_time_filter(filterId, Head(pending))
                 ELSE setting_results_filter(filterId, Head(pending))
       IN  /\ output' = output \o f.items
           /\ decodes' = decodes + (IF f.decoded THEN 1 ELSE 0)
           /\ streamState' = IF f.panic THEN "panicked" ELSE "open"
    /\ pending' = Tail(pending)
    /\ UNCHANGED <<streamKind, filterId, delivered>>
    /\ UNCHANGED <<codecVars, parseVars, sessionVars, uuidVars>>

(***************************************************************************)
(* UUID conversions (src/src/uuid.rs).  A u128 is the sequence of its 32   *)
(* hexadecimal digits, most significant first; a String is the sequence   *)
(* of its characters.                                                      *)
(***************************************************************************)
RADIX == 16
DIGIT_BITS == 4
U128_DIGITS == 32
HexDigit == 0 .. RADIX - 1
ZeroU128 == [i \in 1 .. U128_DIGITS |-> 0]

\* u >> bits and u << bits for a multiple of four bits: the digits shifted
\* out are discarded, as Rust's shifts do.
Shr(u, bits) ==
    LET d == bits \div DIGIT_BITS
    IN  [i \in 1 .. U128_DIGITS |-> IF i <= d THEN 0 ELSE u[i - d]]
Shl(u, bits) ==
    LET d == bits \div DIGIT_BITS
    IN  [i \in 1 .. U128_DIGITS |-> IF i + d <= U128_DIGITS THEN u[i + d] ELSE 0]

\* u & v, digit by digit and bit by bit.
DigitAnd(a, b) ==
    LET Bit(x, k) == (x \div Pow2(k)) % 2
    IN  Bit(a, 0) * Bit(b, 0) + 2 * Bit(a, 1) * Bit(b, 1)
          + 4 * Bit(a, 2) * Bit(b, 2) + 8 * Bit(a, 3) * Bit(b, 3)
BitAnd(u, v) == [i \in 1 .. U128_DIGITS |-> DigitAnd(u[i], v[i])]

\* The literals 0xFFFF and 0xFFFFFFFFFFFF.
LowOnes(digits) ==
    [i \in 1 .. U128_DIGITS |-> IF i > U128_DIGITS - digits THEN RADIX - 1 ELSE 0]
MASK_FFFF == LowOnes(4)
MASK_FFFFFFFFFFFF == LowOnes(12)

\* u + v with the carry out of the most significant digit reported.
RECURSIVE AddDigits(_, _, _, _, _)
AddDigits(u, v, i, carry, acc) ==
    IF i = 0
    THEN [sum |-> acc, overflow |-> carry # 0]
    ELSE LET t == u[i] + v[i] + carry
         IN  AddDigits(u, v, i - 1, t \div RADIX, <<t % RADIX>> \o acc)
Add(u, v) == AddDigits(u, v, U128_DIGITS, 0, <<>>)

\* The Result of string_to_uuid128; "Panic" is the arithmetic overflow of a
\* build with overflow checks.
NotParsed == [tag |-> "-", uuid |-> ZeroU128]
UuidOk(u) == [tag |-> "Ok", uuid |-> u]
ParseIntError == [tag |-> "ParseInt", uuid |-> ZeroU128]
Incomplete == [tag |-> "Incomplete", uuid |-> ZeroU128]
UuidPanic == [tag |-> "Panic", uuid |-> ZeroU128]

\* The digits of the {:X} format, and the lower-case ones to_digit accepts.
UPPER_HEX ==
    <<"0", "1", "2", "3", "4", "5", "6", "7",
      "8", "9", "A", "B", "C", "D", "E", "F">>
LOWER_HEX ==
    <<"0", "1", "2", "3", "4", "5", "6", "7",
      "8", "9", "a", "b", "c", "d", "e", "f">>

\* {:0wX}: the upper-case digits of u without leading zeros ("0" for zero),
\* padded on the left with "0" up to the width w, never truncated.
RECURSIVE SignificantDigits(_)
SignificantDigits(d) ==
    IF Len(d) = 1 \/ d[1] # 0 THEN d ELSE SignificantDigits(Tail(d))
UpperHex(u) ==
    LET d == SignificantDigits(u)
    IN  [i \in 1 .. Len(d) |-> UPPER_HEX[d[i] + 1]]
FormatUpperHex(u, width) ==
    LET d == UpperHex(u)
    IN  IF Len(d) >= width THEN d ELSE [i \in 1 .. width - Len(d) |-> "0"] \o d

uuid128_to_string(u) ==
    FormatUpperHex(Shr(u, 96), 8) \o <<"-">>
      \o FormatUpperHex(BitAnd(Shr(u, 80), MASK_FFFF), 4) \o <<"-">>
      \o FormatUpperHex(BitAnd(Shr(u, 64), MASK_FFFF), 4) \o <<"-">>
      \o FormatUpperHex(BitAnd(Shr(u, 48), MASK_FFFF), 4) \o <<"-">>
      \o FormatUpperHex(BitAnd(u, MASK_FFFFFFFFFFFF), 12)

\* s.split('-'): the pieces between the separators; a string without a
\* separator, the empty one included, is a single piece.
RECURSIVE split(_)
split(s) ==
    IF \A i \in DOMAIN s : s[i] # "-"
    THEN <<s>>
    ELSE LET i == CHOOSE k \in DOMAIN s :
                      s[k] = "-" /\ \A j \in 1 .. k - 1 : s[j] # "-"
         IN  <<SubSeq(s, 1, i - 1)>> \o split(SubSeq(s, i + 1, Len(s)))

\* char::to_digit(16): the value of a hexadecimal digit of either case, and
\* -1 (None) for any other character.
to_digit(c) ==
    IF \E d \in HexDigit : UPPER_HEX[d + 1] = c
    THEN CHOOSE d \in HexDigit : UPPER_HEX[d + 1] = c
    ELSE IF \E d \in HexDigit : LOWER_HEX[d + 1] = c
         THEN CHOOSE d \in HexDigit : LOWER_HEX[d + 1] = c
         ELSE -1

\* u128::from_str_radix(x, 16): an empty string is an error; one leading "+"
\* is skipped; then every character must be a digit, and the value is
\* accumulated as acc * 16 + digit with the multiplication checked.
IntOk(u) == [ok |-> TRUE, v |-> u]
IntErr == [ok |-> FALSE, v |-> ZeroU128]
RECURSIVE Accumulate(_, _)
Accumulate(digits, acc) ==
    IF digits = <<>>
    THEN IntOk(acc)
    ELSE LET d == to_digit(Head(digits))
         IN  IF d < 0 \/ acc[1] # 0
             THEN IntErr
             ELSE Accumulate(Tail(digits), Tail(acc) \o <<d>>)
from_str_radix(x) ==
    IF x = <<>>
    THEN IntErr
    ELSE LET digits == IF x[1] = "+" THEN Tail(x) ELSE x
         IN  IF digits = <<>> THEN IntErr ELSE Accumulate(digits, ZeroU128)

\* a + b of two u128: with overflow checks an overflow panics, without them
\* the sum wraps.  A panic of the left operand propagates.
CheckedAdd(a, b, overflowChecks) ==
    IF a.tag # "Ok"
    THEN a
    ELSE LET r == Add(a.uuid, b)
         IN  IF r.overflow /\ overflowChecks THEN UuidPanic ELSE UuidOk(r.sum)

string_to_uuid128(s, overflowChecks) ==
    LET parts == split(s)
        i == [k \in DOMAIN parts |-> from_str_radix(parts[k])]
    IN  IF \E k \in DOMAIN i : ~i[k].ok
        THEN ParseIntError
        ELSE IF Len(i) # 5
        THEN Incomplete
        ELSE CheckedAdd(
                 CheckedAdd(
                     CheckedAdd(
                         CheckedAdd(UuidOk(Shl(i[1].v, 96)), Shl(i[2].v, 80),
                                    overflowChecks),
                         Shl(i[3].v, 64), overflowChecks),
                     Shl(i[4].v, 48), overflowChecks),
                 i[5].v, overflowChecks)

(***************************************************************************)
(* Codec specification: encode a temperature, decode what was encoded.     *)
(***************************************************************************)
NotRun == [run |-> FALSE, ok |-> FALSE, bytes |-> <<>>]
Ran(r) == [run |-> TRUE, ok |-> r.ok, bytes |-> r.bytes]

\* The parser variables while the codec is exercised, and the reverse.
ParseIdle ==
    /\ value = <<>>
    /\ realTime = [run |-> FALSE, res |-> RtNone]
    /\ settingResult = [run |-> FALSE, res |-> SrNone]
StreamIdle ==
    /\ streamKind = "-"
    /\ filterId = 0
    /\ pending = <<>>
    /\ delivered = <<>>
    /\ output = <<>>
    /\ decodes = 0
    /\ streamState = "-"
SessionIdle ==
    /\ device = BBQDevice_new
    /\ authenticated = FALSE
    /\ notifying = {}
    /\ streams = <<>>
    /\ call = NoCall
    /\ ops = <<>>
CodecIdle ==
    /\ tenths = 0
    /\ temperature = F32Zero
    /\ encoded = NotRun
    /\ decoded = NoFloat
UuidIdle ==
    /\ uuid128 = ZeroU128
    /\ uuidString = <<>>
    /\ uuidParsed = NotParsed
    /\ uuidPhase = "-"

InitCodec ==
    /\ \/ \E n \in -MaxTenths .. MaxTenths :
             tenths = n /\ temperature = F32Tenths(n)
       \/ tenths = 0 /\ temperature \in {F32NaN, F32Inf(1), F32Inf(-1)}
    /\ encoded = NotRun
    /\ decoded = NoFloat
    /\ ParseIdle
    /\ SessionIdle
    /\ StreamIdle
    /\ UuidIdle

Encode ==
    /\ ~encoded.run
    /\ encoded' = Ran(encode_temperature(temperature))
    /\ UNCHANGED <<tenths, temperature, decoded, parseVars, sessionVars, streamVars, uuidVars>>

Decode ==
    /\ encoded.run /\ encoded.ok /\ ~decoded.some
    /\ decoded' = SomeFloat(decode_temperature(encoded.bytes))
    /\ UNCHANGED <<tenths, temperature, encoded, parseVars, sessionVars, streamVars, uuidVars>>

NextCodec == Encode \/ Decode

SpecCodec == InitCodec /\ [][NextCodec]_vars

(***************************************************************************)
(* Parser specification: hand a payload to one of the two parsers.         *)
(***************************************************************************)
Byte == 0 .. 255
RealTimeBytes == {0, 4, 36, 246, 255}
SettingBytes == {0, 4, 36, 255}

SeqsUpTo(S, n) == UNION {[1 .. k -> S] : k \in 0 .. n}

Payloads ==
    SeqsUpTo(Byte, CHUNK_SIZE)
        \cup SeqsUpTo(RealTimeBytes, MaxRealTimeLen)
        \cup SeqsUpTo(SettingBytes, MaxSettingLen)

InitParse ==
    /\ value \in Payloads
    /\ realTime = [run |-> FALSE, res |-> RtNone]
    /\ settingResult = [run |-> FALSE, res |-> SrNone]
    /\ CodecIdle
    /\ SessionIdle
    /\ StreamIdle
    /\ UuidIdle

ParseRealTime ==
    /\ ~realTime.run /\ ~settingResult.run
    /\ realTime' = [run |-> TRUE, res |-> RealTimeData_try_parse(value)]
    /\ UNCHANGED <<value, settingResult, codecVars, sessionVars, streamVars, uuidVars>>

ParseSettingResult ==
    /\ ~realTime.run /\ ~settingResult.run
    /\ settingResult' = [run |-> TRUE, res |-> SettingResult_try_parse(value)]
    /\ UNCHANGED <<value, realTime, codecVars, sessionVars, streamVars, uuidVars>>

NextParse == ParseRealTime \/ ParseSettingResult

SpecParse == InitParse /\ [][NextParse]_vars

(***************************************************************************)
(* Session specification: any sequence of calls on a constructed           *)
(* BBQDevice, each transport operation succeeding or failing.              *)
(***************************************************************************)
\* The probes and the targets (the literals n/10, NaN and the infinities)
\* handed to set_target_temp.
Probes == {0, 5, 255}
TargetTenths == {-32769, -32768, -3000, 1005, 32767, 32768}
Targets ==
    {<<n, F32Tenths(n)>> : n \in TargetTenths}
        \cup {<<0, F32NaN>>, <<0, F32Inf(1)>>, <<0, F32Inf(-1)>>}

Init ==
    /\ SessionIdle
    /\ CodecIdle
    /\ ParseIdle
    /\ StreamIdle
    /\ UuidIdle

Next ==
    \/ \E ok \in BOOLEAN : authenticate(ok)
    \/ \E unit \in TemperatureUnit, ok \in BOOLEAN : set_temperature_unit(unit, ok)
    \/ \E probe \in Probes, t \in Targets, ok \in BOOLEAN :
          set_target_temp(probe, t[1], t[2], ok)
    \/ \E enable \in BOOLEAN, ok \in BOOLEAN : enable_real_time_data(enable, ok)
    \/ \E ok \in BOOLEAN : request_battery_level(ok)
    \/ \E notifyOk \in BOOLEAN, streamOk \in BOOLEAN : real_time(notifyOk, streamOk)
    \/ \E notifyOk \in BOOLEAN, streamOk \in BOOLEAN :
          setting_results(notifyOk, streamOk)
    \/ \E i \in 1 .. MaxStreams : DropStream(i)

Spec == Init /\ [][Next]_vars

(***************************************************************************)
(* Stream specification: a stream real_time() or setting_results() has     *)
(* just returned, fed by the transport and polled by its consumer.         *)
(***************************************************************************)
EventChars == {SETTING_RESULT_UUID, HISTORY_DATA_UUID, REAL_TIME_DATA_UUID}
EventPayloads ==
    {<<246, 255, 4, 36>>, <<0>>, <<255, 2, 0, 0, 0, 0>>, <<255, 2, 1, 0, 0, 0>>}
Events ==
    {ValueEvent(id, b) : id \in EventChars, b \in EventPayloads} \cup {DeviceEvent}

StreamOpened(name, ch) ==
    /\ device = BBQDevice_new
    /\ authenticated \in BOOLEAN
    /\ notifying = {ch}
    /\ streams = <<ch>>
    /\ call = Call(name, 0, 0, F32Zero, "Ok")
    /\ ops = <<StartNotifyOp(ch, TRUE), EventStreamOp(ch, TRUE)>>
    /\ streamKind = name
    /\ filterId = ch
    /\ pending = <<>>
    /\ delivered = <<>>
    /\ output = <<>>
    /\ decodes = 0
    /\ streamState = "open"

InitStream ==
    /\ \/ StreamOpened("real_time", BBQDevice_new.real_time_data_characteristic)
       \/ StreamOpened("setting_results", BBQDevice_new.setting_result_characteristic)
    /\ CodecIdle
    /\ ParseIdle
    /\ UuidIdle

NextStream ==
    \/ \E event \in Events : Deliver(event)
    \/ Poll

SpecStream == InitStream /\ [][NextStream]_vars

(***************************************************************************)
(* UUID specification: format a Uuid128 and parse the text back, or parse  *)
(* a given text.                                                           *)
(***************************************************************************)
\* A field of a UUID, as digits: all zeros, all F, the value one, or a run
\* of mixed digits.
FieldKinds == {"zero", "ones", "one", "mixed"}
Field(kind, width, offset) ==
    [i \in 1 .. width |->
        CASE kind = "zero" -> 0
          [] kind = "ones" -> RADIX - 1
          [] kind = "one" -> IF i = width THEN 1 ELSE 0
          [] OTHER -> (7 * (i + offset) + 3) % RADIX]
\* 0x0000ACAB_0000_1000_8000_00805F9B34FB of test_format.
TEST_UUID ==
    <<0, 0, 0, 0, 10, 12, 10, 11,  0, 0, 0, 0,  1, 0, 0, 0,  8, 0, 0, 0,
      0, 0, 8, 0, 5, 15, 9, 11, 3, 4, 15, 11>>
Uuids ==
    {Field(a, 8, 0) \o Field(b, 4, 8) \o Field(c, 4, 12) \o Field(d, 4, 16)
         \o Field(e, 12, 20) : a, b, c, d, e \in FieldKinds}
      \cup {TEST_UUID}

\* The texts handed to the parser: up to MaxUuidParts parts, joined by "-",
\* each empty, hexadecimal of either case, signed, or holding a letter that
\* is no digit; and five hexadecimal parts wider than their fields.
RECURSIVE Join(_)
Join(parts) ==
    IF Len(parts) = 1
    THEN parts[1]
    ELSE parts[1] \o <<"-">> \o Join(Tail(parts))
SmallParts ==
    {<<>>, <<"0">>, <<"f", "B">>, <<"+", "1">>, <<"1", "Z", "0", "0">>}
WideParts ==
    {<<"0">>,
     [i \in 1 .. 8 |-> "F"],
     <<"1", "F", "F", "F", "F">>,
     <<"1">> \o [i \in 1 .. U128_DIGITS |-> "0"]}
UuidStrings ==
    {Join(parts) : parts \in UNION {[1 .. n -> SmallParts] : n \in 1 .. MaxUuidParts}}
      \cup {Join(parts) : parts \in [1 .. 5 -> WideParts]}

InitUuid ==
    /\ \/ uuid128 \in Uuids /\ uuidString = <<>> /\ uuidPhase = "uuid"
       \/ uuid128 = ZeroU128 /\ uuidString \in UuidStrings /\ uuidPhase = "string"
    /\ uuidParsed = NotParsed
    /\ CodecIdle
    /\ ParseIdle
    /\ SessionIdle
    /\ StreamIdle

Format ==
    /\ uuidPhase = "uuid"
    /\ uuidString' = uuid128_to_string(uuid128)
    /\ uuidPhase' = "formatted"
    /\ UNCHANGED <<uuid128, uuidParsed, codecVars, parseVars, sessionVars, streamVars>>

\* Whether arithmetic overflow is checked is a property of the build.
ParseUuid(overflowChecks) ==
    /\ uuidPhase \in {"formatted", "string"}
    /\ uuidParsed' = string_to_uuid128(uuidString, overflowChecks)
    /\ uuidPhase' = IF uuidPhase = "formatted" THEN "roundtrip" ELSE "parsed"
    /\ UNCHANGED <<uuid128, uuidString, codecVars, parseVars, sessionVars, streamVars>>

NextUuid ==
    \/ Format
    \/ \E overflowChecks \in BOOLEAN : ParseUuid(overflowChecks)

SpecUuid == InitUuid /\ [][NextUuid]_vars

(***************************************************************************)
(* Properties of the codec (SpecCodec).                                    *)
(***************************************************************************)
\* C2: for every n in [-32768, 32767], encoding the temperature n/10 succeeds
\* with the little-endian bytes of n, and decoding those bytes gives the
\* temperature back.
TemperatureRoundTrip ==
    (temperature.k = "fin" /\ tenths \in I16_MIN .. I16_MAX) =>
        /\ encoded.run =>
              /\ encoded.ok
              /\ encoded.bytes = <<tenths % 256, (tenths % 65536) \div 256>>
        /\ decoded.some => decoded.v = temperature

\* 51.3 (no f32 is exactly 51.3) went through encode and decode unchanged.
TemperatureRoundTripWitness ==
    /\ tenths = 513
    /\ encoded.run /\ encoded.bytes = <<1, 2>>
    /\ decoded.some /\ decoded.v = temperature

F32Le(x, y) == x.k # "nan" /\ y.k # "nan" /\ ~F32Lt(y, x)
InEncodableRange(t) == F32Le(TEMPERATURE_MIN, t) /\ F32Le(t, TEMPERATURE_MAX)

\* C3: encode_temperature returns the encoding error exactly when the
\* temperature is outside [TEMPERATURE_MIN, TEMPERATURE_MAX]; a temperature
\* outside the range never yields two bytes.
EncodeErrorIffOutOfRange ==
    encoded.run => (encoded.ok <=> InEncodableRange(temperature))

(***************************************************************************)
(* Properties of the parsers (SpecParse).                                  *)
(***************************************************************************)
\* C1: SettingResult::try_parse returns an event or no event for every
\* payload, and never panics.
SettingResultParseIsTotal ==
    settingResult.run => settingResult.res.outcome \in {"none", "some"}

\* The little-endian signed 16-bit value of two bytes.
SignedWord(lo, hi) == lo + 256 * hi - (IF hi >= 128 THEN 65536 ELSE 0)

\* The reference of C4: none for an odd length; otherwise one slot per two
\* bytes, absent when the word is -10 and the word over ten otherwise.
RealTimeReference(b) ==
    IF Len(b) % 2 = 1 THEN RtNone
    ELSE RtSome([i \in 1 .. (Len(b) \div 2) |->
            LET n == SignedWord(b[2 * i - 1], b[2 * i])
            IN  IF n = -10 THEN NoFloat ELSE SomeFloat(F32Tenths(n))])

\* C4: RealTimeData::try_parse equals the reference for every payload, and
\* no slot carries the reading -1.0.
RealTimeParseMatchesReference ==
    realTime.run =>
        /\ realTime.res = RealTimeReference(value)
        /\ realTime.res.some => Len(realTime.res.probe_temperatures) * 2 = Len(value)
        /\ \A i \in DOMAIN realTime.res.probe_temperatures :
              LET slot == realTime.res.probe_temperatures[i]
              IN  slot.some => slot.v # Fin(-1, MantLo, 1 - F32_MANTISSA_BITS)

\* A payload with an absent probe followed by a reading was parsed.
RealTimeParseWitness ==
    /\ realTime.run
    /\ value = <<246, 255, 4, 36>>
    /\ realTime.res.some
    /\ ~realTime.res.probe_temperatures[1].some
    /\ realTime.res.probe_temperatures[2].some

\* C5: SettingResult::try_parse is none for every payload whose length is
\* not 6 and for every other first byte; a battery level whatever the last
\* byte is; an acknowledgement or a silence notification for the
\* well-formed payloads.
SettingResultDispatch ==
    settingResult.run =>
        LET b == value
            r == settingResult.res
        IN  /\ Len(b) # 6 => r = SrNone
            /\ (Len(b) = 6 /\ b[1] \notin {255, 36, 4}) => r = SrNone
            /\ (Len(b) = 6 /\ b[1] = 36) =>
                   r = BatteryLevel(b[2] + 256 * b[3], b[4] + 256 * b[5])
            /\ (Len(b) = 6 /\ b[1] = 255 /\ \A i \in 3 .. 6 : b[i] = 0) =>
                   r = AcknowledgeCommand(b[2])
            /\ b = <<4, 255, 0, 0, 0, 0>> => r = SilencePressed

\* A battery level with a non-zero last byte was parsed.
SettingResultDispatchWitness ==
    /\ settingResult.run
    /\ value = <<36, 4, 36, 255, 0, 255>>
    /\ settingResult.res.tag = "BatteryLevel"
    /\ settingResult.res.current_voltage = 9220
    /\ settingResult.res.max_voltage = 255

(***************************************************************************)
(* Properties of the session (Spec).                                       *)
(***************************************************************************)
WriteCalls ==
    {"authenticate", "set_temperature_unit", "enable_real_time_data",
     "request_battery_level", "set_target_temp"}
SubscribeCalls == {"real_time", "setting_results"}

\* The two little-endian bytes of the 16-bit two's complement of n.
WordBytes(n) == <<n % 256, (n % 65536) \div 256>>

\* C6: a successful write call issued exactly one write, of the credential
\* blob to the account-and-verify characteristic or of the 6-byte command
\* packet to the setting-data characteristic, and no call writes anywhere
\* else.
SuccessfulCallWritesOnce ==
    /\ (call.name \in WriteCalls /\ call.result = "Ok") =>
          /\ Len(ops) = 1
          /\ ops[1].op = "write"
          /\ ops[1].ok
          /\ call.name = "authenticate" =>
                /\ ops[1].ch = 65522
                /\ ops[1].value = <<33, 7, 6, 5, 4, 3, 2, 1, 184, 34, 0, 0, 0, 0, 0>>
          /\ call.name = "set_temperature_unit" =>
                /\ ops[1].ch = 65525
                /\ call.arg \in {0, 1}
                /\ ops[1].value = <<2, call.arg, 0, 0, 0, 0>>
          /\ call.name = "enable_real_time_data" =>
                /\ ops[1].ch = 65525
                /\ call.arg \in {0, 1}
                /\ ops[1].value = <<11, call.arg, 0, 0, 0, 0>>
          /\ call.name = "request_battery_level" =>
                /\ ops[1].ch = 65525
                /\ ops[1].value = <<8, 36, 0, 0, 0, 0>>
          /\ call.name = "set_target_temp" =>
                /\ ops[1].ch = 65525
                /\ ops[1].value =
                      <<1, call.arg>> \o WordBytes(-3000)
                        \o (IF call.target.k = "nan" THEN <<0, 0>>
                            ELSE WordBytes(call.lit))
    /\ \A i \in DOMAIN ops :
          ops[i].op = "write" =>
              /\ ops[i].ch \in {65522, 65525}
              /\ ops[i].ch = 65522 <=> call.name = "authenticate"

\* set_target_temp(5, 100.5) wrote 01 05 48 F4 ED 03.
SuccessfulCallWritesOnceWitness ==
    /\ call.name = "set_target_temp" /\ call.result = "Ok"
    /\ call.arg = 5 /\ call.lit = 1005
    /\ ops = <<WriteOp(65525, <<1, 5, 72, 244, 237, 3>>, TRUE)>>

\* C7: set_target_temp encodes -300.0 as the lower bound and forwards the
\* probe; with a target outside the encodable range it returns
\* TemperatureEncodingError and issues no write.
SetTargetTempRejectsOutOfRange ==
    call.name = "set_target_temp" =>
        /\ ~InEncodableRange(call.target) =>
              call.result = "TemperatureEncodingError" /\ ops = <<>>
        /\ \A i \in DOMAIN ops :
              /\ ops[i].value[2] = call.arg
              /\ <<ops[i].value[3], ops[i].value[4]>> = WordBytes(-3000)

\* What the transport answered to the operations of a call.
TransportResult(os) == IF \A i \in DOMAIN os : os[i].ok THEN "Ok" ELSE "Bluetooth"

\* C8 as stated: whether or not authenticate() has succeeded, every command
\* and subscription issues its transport operation and returns the
\* transport's result, and the handles stay as resolved.
EveryCallReachesTransport ==
    /\ device = BBQDevice_new
    /\ call.name \in (WriteCalls \cup SubscribeCalls) =>
          /\ ops # <<>>
          /\ call.result = TransportResult(ops)

\* C8 as amended: the same, except that set_target_temp with a target
\* encode_temperature rejects returns TemperatureEncodingError without a
\* transport operation, in the Resolved and the Authenticated state alike.
EncodingRejects(t) == t.k # "nan" /\ ~InEncodableRange(t)
NoAuthenticationGuard ==
    /\ device = BBQDevice_new
    /\ call.name \in (WriteCalls \cup SubscribeCalls) =>
          IF call.name = "set_target_temp" /\ EncodingRejects(call.target)
          THEN call.result = "TemperatureEncodingError" /\ ops = <<>>
          ELSE /\ ops # <<>>
               /\ call.result = TransportResult(ops)
               /\ call.name \in WriteCalls => ops[1].op = "write"
               /\ call.name \in SubscribeCalls => ops[1].op = "start_notify"

\* A command succeeded although authenticate() never had.
NoAuthenticationGuardWitness ==
    /\ ~authenticated
    /\ call.name = "enable_real_time_data" /\ call.result = "Ok"
    /\ ops = <<WriteOp(65525, <<11, 1, 0, 0, 0, 0>>, TRUE)>>

\* C9: real_time() and setting_results() only start notifications on their
\* own characteristic and open its event stream, writing nothing;
\* enable_real_time_data only writes, leaving the notifications and the
\* streams as they were.
SubscriptionIndependentOfEmission ==
    [][/\ call'.name \in SubscribeCalls =>
            LET ch == IF call'.name = "real_time" THEN 65524 ELSE 65521
            IN  /\ ops' \in {<<StartNotifyOp(ch, FALSE)>>,
                              <<StartNotifyOp(ch, TRUE), EventStreamOp(ch, FALSE)>>,
                              <<StartNotifyOp(ch, TRUE), EventStreamOp(ch, TRUE)>>}
                /\ notifying' \subseteq notifying \cup {ch}
       /\ call'.name = "enable_real_time_data" =>
            /\ Len(ops') = 1
            /\ ops'[1].op = "write"
            /\ notifying' = notifying
            /\ streams' = streams]_vars

\* real_time() returned a stream having issued start_notify and
\* characteristic_event_stream on the real-time-data characteristic only.
SubscriptionIndependentWitness ==
    /\ call.name = "real_time" /\ call.result = "Ok"
    /\ ops = <<StartNotifyOp(65524, TRUE), EventStreamOp(65524, TRUE)>>
    /\ notifying = {65524}
    /\ streams = <<65524>>

\* The characteristics of the streams still open.
OpenStreamChars == {streams[i] : i \in DOMAIN streams}

\* C11: once a stream is dropped and no other stream of its characteristic
\* is open, the notifications started for that characteristic are no longer
\* active on the transport.
DroppedStreamReleasesSubscription ==
    (call.name = "drop" /\ call.arg \notin OpenStreamChars) =>
        call.arg \notin notifying

(***************************************************************************)
(* Properties of the streams (SpecStream).                                 *)
(***************************************************************************)
\* The value-changed events of the stream's own characteristic.
IsOwnValueEvent(e) ==
    /\ e.variant = "Characteristic"
    /\ e.event = "Value"
    /\ e.id = (IF streamKind = "real_time" THEN 65524 ELSE 65521)

\* The parsed results of the own value-changed events among evs whose
\* payload parses to an event, in order.
RECURSIVE ParsedEvents(_)
ParsedEvents(evs) ==
    IF evs = <<>> THEN <<>>
    ELSE LET e == Head(evs)
             rt == RealTimeData_try_parse(e.value)
             sr == SettingResult_try_parse(e.value)
             item == IF ~IsOwnValueEvent(e) THEN <<>>
                     ELSE IF streamKind = "real_time"
                          THEN (IF rt.some THEN <<RtItem(rt)>> ELSE <<>>)
                          ELSE (IF sr.outcome = "some" THEN <<SrItem(sr)>> ELSE <<>>)
         IN  item \o ParsedEvents(Tail(evs))

Consumed == SubSeq(delivered, 1, Len(delivered) - Len(pending))

\* C10: once the stream has nothing left to poll, its output is the parsed
\* results of the delivered own value-changed events that parse to an
\* event, in arrival order; every other event was dropped without a call of
\* try_parse, and no event ends the stream.
StreamOutputIsFilteredParse ==
    /\ (pending = <<>> \/ streamState # "open") => output = ParsedEvents(delivered)
    /\ decodes = Cardinality({i \in DOMAIN Consumed : IsOwnValueEvent(Consumed[i])})

\* The same, of the stream real_time() returns alone.
RealTimeStreamOutputIsFilteredParse ==
    streamKind = "real_time" =>
        /\ streamState = "open"
        /\ StreamOutputIsFilteredParse

(***************************************************************************)
(* Properties of the UUID conversions (SpecUuid).                          *)
(***************************************************************************)
IsHexChar(c) ==
    \E d \in HexDigit : c = UPPER_HEX[d + 1] \/ c = LOWER_HEX[d + 1]
Separators(s) == {i \in DOMAIN s : s[i] = "-"}
\* s is exactly five non-empty runs of hexadecimal digits separated by "-".
FiveHexParts(s) ==
    /\ Cardinality(Separators(s)) = 4
    /\ \A i \in DOMAIN s \ Separators(s) : IsHexChar(s[i])
    /\ s # <<>> /\ s[1] # "-" /\ s[Len(s)] # "-"
    /\ \A i \in Separators(s) : i + 1 \notin Separators(s)
UuidError == {ParseIntError, Incomplete}

\* C12: parsing the text of any Uuid128 succeeds and gives the Uuid128 back,
\* and parsing a string that is not exactly five "-"-separated hexadecimal
\* parts returns an error.
UuidTextRoundTrip ==
    /\ uuidPhase = "roundtrip" => uuidParsed = UuidOk(uuid128)
    /\ (uuidPhase = "parsed" /\ ~FiveHexParts(uuidString)) =>
           uuidParsed \in UuidError

\* The first half of C12 alone: the round trip of every Uuid128.
UuidRoundTripOnly ==
    uuidPhase = "roundtrip" => uuidParsed = UuidOk(uuid128)
UuidRoundTripReached ==
    uuidPhase = "roundtrip" /\ uuid128 = TEST_UUID
\* The second half of C12 for the strings without a sign.
UnsignedMalformedIsError ==
    (/\ uuidPhase = "parsed"
     /\ ~FiveHexParts(uuidString)
     /\ \A i \in DOMAIN uuidString : uuidString[i] # "+") =>
        uuidParsed \in UuidError

====
